---- MODULE Spec2Model ----
(***************************************************************************)
(* A model of the CrystalSuMAPOTrainer utility scripts:                    *)
(*   - the resumable generation driver (Sampler_api.py),                   *)
(*   - the weight merge (from safetensors.py),                             *)
(*   - the adaptive preprocessing and the preference loss                  *)
(*     (Trainer/utils.py).                                                 *)
(* Each script is standalone, so each has a specification of its own over  *)
(* its own variables; the variables of the other scripts stay at rest.     *)
(***************************************************************************)
EXTENDS Integers, Sequences, FiniteSets, TLC

(***************************************************************************)
(* Bounds of the model.                                                    *)
(***************************************************************************)
\* artists in the manifest
NumArtists == 2
\* image entries per artist
NumImages == 2
\* the largest number of images one response carries (args.batch_size)
BatchSize == 2
\* the largest source width and height given to calculate_adjusted_resolution
MaxWidth == 17
MaxHeight == 10
\* the largest max_side and max_area given to calculate_adjusted_resolution
MaxSide == 18
MaxArea == 130
\* tensor names that the index and the shards may hold
NumKeys == 3
\* the largest height and width of a source image given to preprocess_train
MaxImgSide == 9
\* the largest args.resolution and args.divisible
MaxResolution == 6
MaxDivisible == 4

VARIABLES
    \* ---- generation driver (Sampler_api.py) ----
    pc,          \* position of the driver
    art,         \* index of the artist the outer loop is at
    idx,         \* index of the image entry the inner loop is at
    data,        \* the manifest in memory: entry -> 'generated'
    disk,        \* the manifest file: entry -> 'generated'
    diskOk,      \* the manifest file parses (FALSE: truncated by a failed dump)
    files,       \* output files on disk: <<entry, i>> for {stem}_DPO{i}.webp
    nimgs,       \* number of images in the response being saved
    saved,       \* images of the response saved so far
    visitLog,    \* this run: the entries the loop reached, and what was done
    errored,     \* history: entries whose latest attempt raised an error
    writeFailed, \* history: some write of the manifest has failed
    \* ---- calculate_adjusted_resolution (Sampler_api.py) ----
    resIn,       \* the arguments: width, height, max_area, max_side
    resOut,      \* the returned (width, height), or <<>> before the call
    \* ---- merge_safetensors (from safetensors.py) ----
    weight_map,  \* the index: tensor name -> shard file name, or Absent
    shards,      \* shard file name -> the tensor names the file holds
    mpc,         \* position of the merge
    mpos,        \* the loop has passed the index's names below mpos
    merged,      \* merged_weights: tensor name -> <<shard, name>> it is from
    output,      \* the mapping written to output_path, or <<>> if none
    \* ---- preprocess_train (Trainer/utils.py), one example ----
    prepIn,      \* the example (sizes of jpg_0 and jpg_1, label_0) and args
    prep,        \* position and the values computed so far
    \* ---- compute_loss (Trainer/utils.py) on a pair and on its mirror ----
    lossIn,      \* the two images' predictions and targets, the label, args
    loss         \* position, the two ordered pairs and the values returned

driverVars == <<pc, art, idx, data, disk, diskOk, files, nimgs, saved,
                visitLog, errored, writeFailed>>

resVars == <<resIn, resOut>>

mergeVars == <<weight_map, shards, mpc, mpos, merged, output>>

prepVars == <<prepIn, prep>>

lossVars == <<lossIn, loss>>

vars == <<driverVars, resVars, mergeVars, prepVars, lossVars>>

\* each script leaves the state of the others alone
notDriverVars == <<resVars, mergeVars, prepVars, lossVars>>
notResVars == <<driverVars, mergeVars, prepVars, lossVars>>
notMergeVars == <<driverVars, resVars, prepVars, lossVars>>
notPrepVars == <<driverVars, resVars, mergeVars, lossVars>>
notLossVars == <<driverVars, resVars, mergeVars, prepVars>>

(***************************************************************************)
(* The generation driver.                                                  *)
(***************************************************************************)
Images == 1..NumImages
Entries == (1..NumArtists) \X Images

\* the entry the loops are at
Cur == <<art, idx>>

\* the manifest file as first given: no entry generated
FreshManifest == [e \in Entries |-> FALSE]

DriverInit ==
    /\ pc = "idle"
    /\ art = 1
    /\ idx = 1
    /\ data = FreshManifest
    /\ disk = FreshManifest
    /\ diskOk = TRUE
    /\ files = {}
    /\ nimgs = 0
    /\ saved = 0
    /\ visitLog = <<>>
    /\ errored = {}
    /\ writeFailed = FALSE

\* image_info.get("generated", False)
ShouldSkipNever(e) == FALSE
ShouldSkip(e) == data[e]

\* where control goes when the except clause has logged the error: the next
\* iteration of the for loop
AfterErrorAbort == "aborted"
AfterError == "loop"

\* what json.dump(data, f) writes
ManifestStale == [data EXCEPT ![Cur] = FALSE]
ManifestToWrite == data

\* one line of the run's log: the loop reached entry e, whose flag was gen,
\* and skipped it ("skip"), entered the try block without posting a request
\* ("try") or entered it and posted the request ("post")
Visit(e, what) == [e |-> e, gen |-> data[e], what |-> what]

\* generate_images_from_json up to the outer loop: the output directory is
\* made and the manifest is loaded; either may raise, which ends the run
StartRun ==
    /\ UNCHANGED notDriverVars
    /\ pc \in {"idle", "done", "aborted"}
    /\ \/ /\ pc' = "aborted"
          /\ UNCHANGED <<art, idx, data, visitLog>>
       \/ /\ diskOk
          /\ data' = disk
          /\ art' = 1
          /\ idx' = 1
          /\ pc' = "artist"
          /\ visitLog' = <<>>
    /\ UNCHANGED <<disk, diskOk, files, nimgs, saved, errored, writeFailed>>

\* the outer loop is exhausted: generate_images_from_json returns
RunDone ==
    /\ UNCHANGED notDriverVars
    /\ pc = "artist"
    /\ art > NumArtists
    /\ pc' = "done"
    /\ UNCHANGED <<art, idx, data, disk, diskOk, files, nimgs, saved,
                   visitLog, errored, writeFailed>>

\* process_artist_images is entered: the artist directory is made (outside
\* the try block, so a failure ends the run)
EnterArtist ==
    /\ UNCHANGED notDriverVars
    /\ pc = "artist"
    /\ art <= NumArtists
    /\ \/ pc' = "loop"
       \/ pc' = "aborted"
    /\ idx' = 1
    /\ UNCHANGED <<art, data, disk, diskOk, files, nimgs, saved, visitLog,
                   errored, writeFailed>>

\* the inner loop is exhausted: process_artist_images returns
ArtistDone ==
    /\ UNCHANGED notDriverVars
    /\ pc = "loop"
    /\ idx > NumImages
    /\ art' = art + 1
    /\ idx' = 1
    /\ pc' = "artist"
    /\ UNCHANGED <<data, disk, diskOk, files, nimgs, saved, visitLog,
                   errored, writeFailed>>

\* an entry already marked generated: continue
Skip ==
    /\ UNCHANGED notDriverVars
    /\ pc = "loop"
    /\ idx <= NumImages
    /\ ShouldSkip(Cur)
    /\ visitLog' = Append(visitLog, Visit(Cur, "skip"))
    /\ idx' = idx + 1
    /\ UNCHANGED <<pc, art, data, disk, diskOk, files, nimgs, saved,
                   errored, writeFailed>>

\* the try block is entered for an entry not marked generated and the
\* resolution computation raises (a record without width or height)
AttemptRaise ==
    /\ UNCHANGED notDriverVars
    /\ pc = "loop"
    /\ idx <= NumImages
    /\ ~ShouldSkip(Cur)
    /\ visitLog' = Append(visitLog, Visit(Cur, "try"))
    /\ errored' = errored \cup {Cur}
    /\ pc' = AfterError
    /\ idx' = idx + 1
    /\ UNCHANGED <<art, data, disk, diskOk, files, nimgs, saved, writeFailed>>

\* the try block is entered for an entry not marked generated, the
\* resolution is computed, the request is posted and the response's images
\* are taken.  fetch_image_from_api catches its own errors and returns [],
\* so a failed request is a response of 0 images; a response whose 'images'
\* is not a list raises at the loop over it.
Attempt ==
    /\ UNCHANGED notDriverVars
    /\ pc = "loop"
    /\ idx <= NumImages
    /\ ~ShouldSkip(Cur)
    /\ visitLog' = Append(visitLog, Visit(Cur, "post"))
    /\ \/ \* 'images' is not iterable
          /\ errored' = errored \cup {Cur}
          /\ pc' = AfterError
          /\ idx' = idx + 1
          /\ UNCHANGED nimgs
       \/ \* n images come back (0: none, or the request failed)
          /\ errored' = errored \ {Cur}
          /\ \E n \in 0..BatchSize : nimgs' = n
          /\ pc' = "save"
          /\ idx' = idx
    /\ UNCHANGED <<art, data, disk, diskOk, files, saved, writeFailed>>

\* one image of the response is decoded and saved
SaveImage ==
    /\ UNCHANGED notDriverVars
    /\ pc = "save"
    /\ saved < nimgs
    /\ files' = files \cup {<<Cur, saved + 1>>}
    /\ saved' = saved + 1
    /\ UNCHANGED <<pc, art, idx, data, disk, diskOk, nimgs, visitLog,
                   errored, writeFailed>>

\* decoding or saving one image raises: the images saved before it stay
SaveFail ==
    /\ UNCHANGED notDriverVars
    /\ pc = "save"
    /\ saved < nimgs
    /\ errored' = errored \cup {Cur}
    /\ pc' = AfterError
    /\ idx' = idx + 1
    /\ nimgs' = 0
    /\ saved' = 0
    /\ UNCHANGED <<art, data, disk, diskOk, files, visitLog, writeFailed>>

\* every image of the response is saved: image_info["generated"] = True
Mark ==
    /\ UNCHANGED notDriverVars
    /\ pc = "save"
    /\ saved = nimgs
    /\ data' = [data EXCEPT ![Cur] = TRUE]
    /\ pc' = "write"
    /\ UNCHANGED <<art, idx, disk, diskOk, files, nimgs, saved, visitLog,
                   errored, writeFailed>>

\* the whole manifest is written to the manifest file
WriteManifest ==
    /\ UNCHANGED notDriverVars
    /\ pc = "write"
    /\ disk' = ManifestToWrite
    /\ diskOk' = TRUE
    /\ pc' = "loop"
    /\ idx' = idx + 1
    /\ nimgs' = 0
    /\ saved' = 0
    /\ UNCHANGED <<art, data, files, visitLog, errored, writeFailed>>

\* writing the manifest raises: open(..., 'w') failed and the file is as it
\* was, or the dump stopped midway and the file is truncated
WriteFail ==
    /\ UNCHANGED notDriverVars
    /\ pc = "write"
    /\ \/ UNCHANGED <<disk, diskOk>>
       \/ /\ diskOk' = FALSE
          /\ disk' = FreshManifest
    /\ errored' = errored \cup {Cur}
    /\ writeFailed' = TRUE
    /\ pc' = AfterError
    /\ idx' = idx + 1
    /\ nimgs' = 0
    /\ saved' = 0
    /\ UNCHANGED <<art, data, files, visitLog>>

DriverNext ==
    \/ StartRun
    \/ RunDone
    \/ EnterArtist
    \/ ArtistDone
    \/ Skip
    \/ AttemptRaise
    \/ Attempt
    \/ SaveImage
    \/ SaveFail
    \/ Mark
    \/ WriteManifest
    \/ WriteFail

(***************************************************************************)
(* calculate_adjusted_resolution.  The code computes in floating point:    *)
(* int(x * scale) is the floor of the exact product, except that a product *)
(* whose exact value is a whole number q may come out just below q and be  *)
(* truncated to q - 1 (22 * (15 / 22) is 14.999...).  Both outcomes are    *)
(* kept, so the function is modelled as the set of results it may return.  *)
(***************************************************************************)
Max(a, b) == IF a >= b THEN a ELSE b

\* floor of the square root
Isqrt(n) == CHOOSE k \in 0..n : k * k <= n /\ n < (k + 1) * (k + 1)

\* int(x * (a / b)) where x * a = num and b = den
FloatFloorDiv(num, den) ==
    LET q == num \div den
    IN  IF num % den = 0 /\ q >= 1 THEN {q, q - 1} ELSE {q}

\* int(x * math.sqrt(a / b)) where x * x * a = num and b = den
FloatFloorSqrt(num, den) ==
    LET q == Isqrt(num \div den)
    IN  IF q * q * den = num /\ q >= 1 THEN {q, q - 1} ELSE {q}

\* the longest side is limited to max_side
ClampSide(width, height, max_side) ==
    IF width > max_side \/ height > max_side
    THEN FloatFloorDiv(width * max_side, Max(width, height))
            \X FloatFloorDiv(height * max_side, Max(width, height))
    ELSE {<<width, height>>}

\* the area is limited to max_area
ClampAreaNone(wh, max_area) == {wh}
ClampArea(wh, max_area) ==
    LET area == wh[1] * wh[2]
    IN  IF area > max_area
        THEN FloatFloorSqrt(wh[1] * wh[1] * max_area, area)
                \X FloatFloorSqrt(wh[2] * wh[2] * max_area, area)
        ELSE {wh}

\* both sides are rounded down to a multiple of 8
RoundDown8(wh) == <<(wh[1] \div 8) * 8, (wh[2] \div 8) * 8>>

calculate_adjusted_resolution(width, height, max_area, max_side) ==
    {RoundDown8(b) :
        b \in UNION {ClampArea(a, max_area) :
                        a \in ClampSide(width, height, max_side)}}

ResIdle ==
    /\ resIn = [width |-> 1, height |-> 1, max_area |-> 0, max_side |-> 0]
    /\ resOut = <<>>

ResInit ==
    /\ resIn \in [width : 1..MaxWidth, height : 1..MaxHeight,
                  max_area : 0..MaxArea, max_side : 0..MaxSide]
    /\ resOut = <<>>

ResCall ==
    /\ UNCHANGED notResVars
    /\ resOut = <<>>
    /\ resOut' \in calculate_adjusted_resolution(
                      resIn.width, resIn.height, resIn.max_area,
                      resIn.max_side)
    /\ UNCHANGED resIn

(***************************************************************************)
(* merge_safetensors.  A tensor is known by the shard it was read from and *)
(* its name.  The index may name any shard file; the code loads two.       *)
(***************************************************************************)
File1 == "diffusion_pytorch_model-00001-of-00002.safetensors"
File2 == "diffusion_pytorch_model-00002-of-00002.safetensors"
\* a shard file the index may name and the code does not load
File3 == "diffusion_pytorch_model-00003-of-00003.safetensors"
ShardFiles == {File1, File2, File3}
Absent == "absent"
Keys == 1..NumKeys

\* the names of weight_map
IndexKeys == {k \in Keys : weight_map[k] # Absent}

\* the next name weight_map.items() yields, 0 when exhausted
NextKey ==
    IF \E k \in IndexKeys : k >= mpos
    THEN CHOOSE k \in IndexKeys : k >= mpos /\ \A j \in IndexKeys : j >= mpos => k <= j
    ELSE 0

\* the loaded shard the loop body reads for a file name
SelectedShard(file_name) == IF file_name = File1 THEN File1 ELSE File2

\* merged_weights[key] = <shard>[key]
PutSkipOther(m, key, shard) ==
    IF shard = File1
    THEN [k \in DOMAIN m \cup {key} |-> IF k = key THEN <<shard, key>> ELSE m[k]]
    ELSE m
Put(m, key, shard) ==
    [k \in DOMAIN m \cup {key} |-> IF k = key THEN <<shard, key>> ELSE m[k]]

MergeIdle ==
    /\ weight_map = [k \in Keys |-> Absent]
    /\ shards = [f \in ShardFiles |-> {}]
    /\ mpc = "start"
    /\ mpos = 1
    /\ merged = <<>>
    /\ output = <<>>

MergeInit ==
    /\ weight_map \in [Keys -> ShardFiles \cup {Absent}]
    /\ shards \in [ShardFiles -> SUBSET Keys]
    /\ mpc = "start"
    /\ mpos = 1
    /\ merged = <<>>
    /\ output = <<>>

\* the index is read and the two shards are loaded; a missing file or a
\* config without 'weight_map' raises
MergeLoad ==
    /\ UNCHANGED notMergeVars
    /\ mpc = "start"
    /\ \/ mpc' = "loop"
       \/ mpc' = "raised"
    /\ UNCHANGED <<weight_map, shards, mpos, merged, output>>

\* one iteration of the loop over weight_map.items()
MergeStep ==
    /\ UNCHANGED notMergeVars
    /\ mpc = "loop"
    /\ NextKey # 0
    /\ LET key == NextKey
           shard == SelectedShard(weight_map[key])
       IN  IF key \in shards[shard]
           THEN /\ merged' = Put(merged, key, shard)
                /\ mpos' = key + 1
                /\ mpc' = "loop"
           ELSE /\ mpc' = "raised"
                /\ UNCHANGED <<merged, mpos>>
    /\ UNCHANGED <<weight_map, shards, output>>

\* save_file(merged_weights, output_path)
MergeSave ==
    /\ UNCHANGED notMergeVars
    /\ mpc = "loop"
    /\ NextKey = 0
    /\ output' = merged
    /\ mpc' = "saved"
    /\ UNCHANGED <<weight_map, shards, mpos, merged>>

MergeNext ==
    \/ MergeLoad
    \/ MergeStep
    \/ MergeSave

(***************************************************************************)
(* get_dataset_preprocessor / preprocess_train, for one example of the     *)
(* batch (the examples of a batch are processed independently).  An image  *)
(* is known by its column name, its height and width, and whether          *)
(* process_image rescaled it.  Probabilities and draws are in percent.     *)
(***************************************************************************)
\* args.label_noise_prob is None (a value no probability takes)
NoneProb == 0 - 1
\* values of args.label_noise_prob, and of random.random()
NoiseProbs == {NoneProb, 0, 50}
Draws == {25, 75}

\* calculate_adaptive_size: the set of (height, width) it may return (the
\* square root is taken in floating point, see FloatFloorSqrt)
calculate_adaptive_size_unaligned(height, width, target_area, divisible) ==
    IF height * width > target_area
    THEN {<<hq * divisible, wq * divisible>> :
            hq \in FloatFloorSqrt(height * height * target_area,
                                  height * width * divisible * divisible),
            wq \in FloatFloorSqrt(width * width * target_area,
                                  height * width * divisible * divisible)}
    ELSE {<<height, width>>}
calculate_adaptive_size(height, width, target_area, divisible) ==
    LET img_area == height * width
        scaled ==
            IF img_area > target_area
            THEN {<<hq * divisible, wq * divisible>> :
                    hq \in FloatFloorSqrt(height * height * target_area,
                                          img_area * divisible * divisible),
                    wq \in FloatFloorSqrt(width * width * target_area,
                                          img_area * divisible * divisible)}
            ELSE {<<height, width>>}
    IN  {<<hw[1] - (hw[1] % divisible), hw[2] - (hw[2] % divisible)>> :
            hw \in scaled}

\* process_image's test: the image is resized when it is larger than the
\* target in height or in width
NeedsResizeOverBudget(h, w, target_h, target_w) == h * w > target_h * target_w
NeedsResizeBoth(h, w, target_h, target_w) == h > target_h /\ w > target_w
NeedsResize(h, w, target_h, target_w) == h > target_h \/ w > target_w

\* process_image: the tensor of an image of h x w
process_image(name, h, w, target_h, target_w) ==
    IF NeedsResize(h, w, target_h, target_w)
    THEN [name |-> name, h |-> target_h, w |-> target_w, resized |-> TRUE]
    ELSE [name |-> name, h |-> h, w |-> w, resized |-> FALSE]

\* the label after the optional noise flip
NoisyLabelAlways(label_0, label_noise_prob, draw) == 1 - label_0
NoisyLabel(label_0, label_noise_prob, draw) ==
    IF label_noise_prob # NoneProb /\ draw < label_noise_prob
    THEN 1 - label_0
    ELSE label_0

\* the pair in the order torch.cat joins it: im_tup or im_tup[::-1]
OrderPairKeep(im_0, im_1, label) == <<im_0, im_1>>
OrderPair(im_0, im_1, label) ==
    IF label = 0 THEN <<im_1, im_0>> ELSE <<im_0, im_1>>

\* int(round(d / 2.0)): Python rounds a half to the even neighbour
RoundHalf(d) ==
    IF d % 2 = 0 THEN d \div 2
    ELSE IF (d \div 2) % 2 = 0 THEN d \div 2 ELSE (d \div 2) + 1

NoTensor == [name |-> "", h |-> 0, w |-> 0, resized |-> FALSE]

PrepStart ==
    [pc |-> "sizes", size |-> <<0, 0>>, im_0 |-> NoTensor, im_1 |-> NoTensor,
     label |-> 0, flipped |-> FALSE, combined |-> <<>>,
     crop_top_left |-> <<0, 0>>, hflip |-> FALSE]

PrepIdle ==
    /\ prepIn = [h0 |-> 1, w0 |-> 1, h1 |-> 1, w1 |-> 1, label_0 |-> 0,
                 resolution |-> 1, divisible |-> 1,
                 label_noise_prob |-> NoneProb, random_crop |-> FALSE,
                 no_hflip |-> FALSE]
    /\ prep = PrepStart

PrepInit ==
    /\ prepIn \in [h0 : 1..MaxImgSide, w0 : 1..MaxImgSide,
                   h1 : {1, MaxImgSide}, w1 : {1},
                   label_0 : {0, 1},
                   resolution : 1..MaxResolution,
                   divisible : 1..MaxDivisible,
                   label_noise_prob : NoiseProbs,
                   random_crop : BOOLEAN,
                   no_hflip : BOOLEAN]
    /\ prep = PrepStart

\* original_sizes and adaptive_sizes are computed from jpg_0
PrepSizes ==
    /\ UNCHANGED notPrepVars
    /\ prep.pc = "sizes"
    /\ \E size \in calculate_adaptive_size(
                      prepIn.h0, prepIn.w0,
                      prepIn.resolution * prepIn.resolution,
                      prepIn.divisible) :
          prep' = [prep EXCEPT !.size = size, !.pc = "images"]
    /\ UNCHANGED prepIn

\* both columns are decoded, jpg_1 is resized to the original size of
\* jpg_0, and each image goes through process_image; Resize raises on a
\* target with an empty side
PrepImages ==
    /\ UNCHANGED notPrepVars
    /\ prep.pc = "images"
    /\ LET th == prep.size[1]
           tw == prep.size[2]
           t0 == process_image("jpg_0", prepIn.h0, prepIn.w0, th, tw)
           t1 == process_image("jpg_1", prepIn.h0, prepIn.w0, th, tw)
       IN  IF t0.resized /\ (th = 0 \/ tw = 0)
           THEN prep' = [prep EXCEPT !.pc = "raised"]
           ELSE prep' = [prep EXCEPT !.im_0 = t0, !.im_1 = t1, !.pc = "pair"]
    /\ UNCHANGED prepIn

\* the label is flipped with probability label_noise_prob, the pair is
\* ordered by the label and joined
PrepPair ==
    /\ UNCHANGED notPrepVars
    /\ prep.pc = "pair"
    /\ \E draw \in Draws :
          LET label == NoisyLabel(prepIn.label_0, prepIn.label_noise_prob, draw)
          IN  prep' = [prep EXCEPT
                          !.label = label,
                          !.flipped = (label # prepIn.label_0),
                          !.combined = OrderPair(prep.im_0, prep.im_1, label),
                          !.pc = "crop"]
    /\ UNCHANGED prepIn

\* the crop offsets: centred, or drawn by RandomCrop.get_params
PrepCrop ==
    /\ UNCHANGED notPrepVars
    /\ prep.pc = "crop"
    /\ LET h == prep.combined[1].h
           w == prep.combined[1].w
           th == prep.size[1]
           tw == prep.size[2]
       IN  IF ~prepIn.random_crop
           THEN prep' = [prep EXCEPT
                    !.crop_top_left = <<Max(0, RoundHalf(h - th)),
                                        Max(0, RoundHalf(w - tw))>>,
                    !.pc = "flip"]
           ELSE IF h < th \/ w < tw
           THEN prep' = [prep EXCEPT !.pc = "raised"]
           ELSE IF h = th /\ w = tw
           THEN prep' = [prep EXCEPT !.crop_top_left = <<0, 0>>,
                                     !.pc = "flip"]
           ELSE \E y1 \in 0..(h - th), x1 \in 0..(w - tw) :
                   prep' = [prep EXCEPT !.crop_top_left = <<y1, x1>>,
                                        !.pc = "flip"]
    /\ UNCHANGED prepIn

\* the joined pair is flipped with probability one half unless no_hflip,
\* and normalised
PrepFlip ==
    /\ UNCHANGED notPrepVars
    /\ prep.pc = "flip"
    /\ \E f \in BOOLEAN :
          /\ prepIn.no_hflip => ~f
          /\ prep' = [prep EXCEPT !.hflip = f, !.pc = "done"]
    /\ UNCHANGED prepIn

PrepNext ==
    \/ PrepSizes
    \/ PrepImages
    \/ PrepPair
    \/ PrepCrop
    \/ PrepFlip

(***************************************************************************)
(* compute_loss.  Real numbers are fixed-point: the integer v stands for   *)
(* v / Scale.  exp and log are summed from their series.  A batch holds    *)
(* one pair: its first half is the first image of the joined pair, its     *)
(* second half the second.                                                 *)
(***************************************************************************)
Scale == 10 * 10 * 10
Abs(z) == IF z >= 0 THEN z ELSE 0 - z
Min(a, b) == IF a <= b THEN a ELSE b

RECURSIVE SumSeq(_)
SumSeq(q) == IF q = <<>> THEN 0 ELSE Head(q) + SumSeq(Tail(q))

\* tensor.mean()
Mean(q) == SumSeq(q) \div Len(q)

\* torch.exp(z) for z >= 0: 1 + z + z^2/2! + ...
RECURSIVE ExpSeries(_, _, _)
ExpSeries(z, term, n) ==
    IF term = 0 THEN 0
    ELSE term + ExpSeries(z, (term * z) \div (n * Scale), n + 1)
Exp(z) == ExpSeries(z, Scale, 1)

\* exp(-y) for y >= 0; below the last digit kept from y = 7 on
ExpNeg(y) == IF y >= 7 * Scale THEN 0 ELSE (Scale * Scale) \div Exp(y)

\* log(1 + u) for 0 <= u <= 1: 2 atanh(u / (2 + u))
Log1p(u) ==
    LET t == (u * Scale) \div (2 * Scale + u)
        t3 == (t * t * t) \div (Scale * Scale)
        t5 == (t3 * t * t) \div (Scale * Scale)
    IN  2 * (t + t3 \div 3 + t5 \div 5)

\* F.logsigmoid(z) = min(z, 0) - log1p(exp(-|z|))
LogSigmoid(z) == Min(z, 0) - Log1p(ExpNeg(Abs(z)))

\* F.mse_loss(..., reduction="none") averaged over all but the batch
\* dimension: one loss per sample
MseLoss(pred, target) ==
    Mean([i \in 1..Len(pred) |->
            ((pred[i] - target[i]) * (pred[i] - target[i])) \div Scale])

\* (snr_value * x) / (exp(snr_value * x) - 1)
OddsTerm(snr_value, x) ==
    (snr_value * x * Scale) \div (Exp(snr_value * x) - Scale)

\* log_odds of the winning and the losing losses
LogOddsSum(snr_value, w, l) == OddsTerm(snr_value, w) + OddsTerm(snr_value, l)
LogOdds(snr_value, w, l) == OddsTerm(snr_value, w) - OddsTerm(snr_value, l)

\* the batch the loss is computed on: the first halves of the joined pairs,
\* then their second halves
SplitHalves(combined) == <<combined[1], combined[2]>>

\* compute_loss: model_pred and target hold one sequence of values per
\* sample of the batch; chunk(2) gives the winning and the losing half
compute_loss(args, noise_scheduler, model_pred, target) ==
    LET model_losses ==
            [i \in 1..Len(model_pred) |-> MseLoss(model_pred[i], target[i])]
        model_losses_w == SubSeq(model_losses, 1, Len(model_losses) \div 2)
        model_losses_l ==
            SubSeq(model_losses, Len(model_losses) \div 2 + 1,
                   Len(model_losses))
        log_odds ==
            [i \in 1..Len(model_losses_w) |->
                LogOdds(args.snr_value, model_losses_w[i], model_losses_l[i])]
        ratio ==
            [i \in 1..Len(log_odds) |->
                LogSigmoid(log_odds[i]
                           * noise_scheduler.config.num_train_timesteps)]
        ratio_losses ==
            [i \in 1..Len(ratio) |-> (args.beta_mapo * ratio[i]) \div Scale]
    IN  [loss |-> Mean(model_losses_w) - Mean(ratio_losses),
         model_losses_w |-> model_losses_w,
         model_losses_l |-> model_losses_l,
         ratio_losses |-> ratio_losses,
         log_odds |-> log_odds]

\* the values of a latent element: predictions and targets (noise) differ,
\* so no sample's loss is exactly zero
PredValues == {300, 800}
TargetValues == {0, 1000}
Samples ==
    [model_pred : PredValues \X PredValues,
     target : TargetValues \X TargetValues]

NoLoss ==
    [loss |-> 0, model_losses_w |-> <<>>, model_losses_l |-> <<>>,
     ratio_losses |-> <<>>, log_odds |-> <<>>]

LossStart ==
    [pc |-> "pairs", pair |-> <<>>, mirror |-> <<>>,
     out |-> NoLoss, out_mirror |-> NoLoss, out_swapped |-> NoLoss]

LossIdle ==
    /\ lossIn = [a |-> [model_pred |-> <<300, 300>>, target |-> <<0, 0>>],
                 b |-> [model_pred |-> <<300, 300>>, target |-> <<0, 0>>],
                 label_0 |-> 0, label_noise_prob |-> NoneProb,
                 draw |-> 25, draw_mirror |-> 25,
                 args |-> [snr_value |-> 1, beta_mapo |-> 100],
                 noise_scheduler |->
                     [config |-> [num_train_timesteps |-> 1]]]
    /\ loss = LossStart

LossInit ==
    /\ lossIn \in [a : Samples, b : Samples,
                   label_0 : {0, 1},
                   label_noise_prob : NoiseProbs,
                   draw : Draws,
                   draw_mirror : Draws,
                   args : [snr_value : {1, 5}, beta_mapo : {100}],
                   noise_scheduler :
                       [config : [num_train_timesteps : {1, 1000}]]]
    /\ loss = LossStart

\* preprocess_train orders the pair (a, b) with label_0 and the mirrored
\* pair (b, a) with 1 - label_0; each call draws its own random.random()
LossPairs ==
    /\ UNCHANGED notLossVars
    /\ loss.pc = "pairs"
    /\ loss' = [loss EXCEPT
          !.pair = OrderPair(
                      [name |-> "a"], [name |-> "b"],
                      NoisyLabel(lossIn.label_0, lossIn.label_noise_prob,
                                 lossIn.draw)),
          !.mirror = OrderPair(
                      [name |-> "b"], [name |-> "a"],
                      NoisyLabel(1 - lossIn.label_0, lossIn.label_noise_prob,
                                 lossIn.draw_mirror)),
          !.pc = "loss"]
    /\ UNCHANGED lossIn

\* the sample of an image: the prediction made for it and its target
SampleOf(im) == IF im.name = "a" THEN lossIn.a ELSE lossIn.b

\* the loss of a joined pair: the batch of its halves, the prediction and
\* the target of each sample, then compute_loss
LossOf(combined) ==
    LET batch == SplitHalves(combined)
    IN  compute_loss(lossIn.args, lossIn.noise_scheduler,
                     [i \in 1..Len(batch) |-> SampleOf(batch[i]).model_pred],
                     [i \in 1..Len(batch) |-> SampleOf(batch[i]).target])

\* compute_loss on the batch of the pair, on the batch of the mirrored
\* pair, and on the batch of the pair with its halves swapped
LossCompute ==
    /\ UNCHANGED notLossVars
    /\ loss.pc = "loss"
    /\ loss' = [loss EXCEPT
          !.out = LossOf(loss.pair),
          !.out_mirror = LossOf(loss.mirror),
          !.out_swapped = LossOf(<<loss.pair[2], loss.pair[1]>>),
          !.pc = "done"]
    /\ UNCHANGED lossIn

LossNext ==
    \/ LossPairs
    \/ LossCompute

(***************************************************************************)
(* The specifications, one per script.                                     *)
(***************************************************************************)
Init == DriverInit /\ ResIdle /\ MergeIdle /\ PrepIdle /\ LossIdle
Next == DriverNext
Spec == Init /\ [][Next]_vars

ResSpecInit == ResInit /\ DriverInit /\ MergeIdle /\ PrepIdle /\ LossIdle
ResSpec == ResSpecInit /\ [][ResCall]_vars

MergeSpecInit == MergeInit /\ DriverInit /\ ResIdle /\ PrepIdle /\ LossIdle
MergeSpec == MergeSpecInit /\ [][MergeNext]_vars

PrepSpecInit == PrepInit /\ DriverInit /\ ResIdle /\ MergeIdle /\ LossIdle
PrepSpec == PrepSpecInit /\ [][PrepNext]_vars

LossSpecInit ==
    LossInit /\ DriverInit /\ ResIdle /\ MergeIdle /\ PrepIdle
LossSpec == LossSpecInit /\ [][LossNext]_vars

\* the driver is single-threaded and runs as long as it has a step to take
LiveSpec == Spec /\ WF_vars(Next)

(***************************************************************************)
(* Properties of the generation driver.                                    *)
(***************************************************************************)
InFlight == pc \in {"save", "write"}
HasOutputs(e) == \E k \in 1..BatchSize : <<e, k>> \in files
\* entries with saved outputs whose flag in the manifest file is false
Orphans == {e \in Entries : HasOutputs(e) /\ ~(diskOk /\ disk[e])}
\* the entries the run has posted a request for
Posted == {visitLog[j].e : j \in {i \in DOMAIN visitLog : visitLog[i].what = "post"}}
\* the j-th entry of the manifest, artists and their images in file order
EntryAt(j) == <<((j - 1) \div NumImages) + 1, ((j - 1) % NumImages) + 1>>

\* C1: an entry whose 'generated' flag is true when the loop reaches it is
\* skipped: the step taken from there posts no request, writes no output
\* file and leaves the manifest file alone, and in every run the log shows
\* every entry reached with its flag set as skipped, in every later run too.
C1_GeneratedNeverReprocessed ==
    /\ [](\A j \in DOMAIN visitLog :
             visitLog[j].gen => visitLog[j].what = "skip")
    /\ [][((pc = "loop" /\ idx <= NumImages /\ data[Cur])
              => (/\ files' = files
                  /\ disk' = disk
                  /\ diskOk' = diskOk
                  /\ visitLog' = Append(visitLog, Visit(Cur, "skip"))
                  /\ pc' = "loop"))]_vars

\* C1 witness: a later run has finished in which the loop reached an entry
\* that an earlier run marked generated, and skipped it
C1_Witness ==
    /\ pc = "done"
    /\ \E j \in DOMAIN visitLog :
          /\ visitLog[j].gen
          /\ visitLog[j].what = "skip"
          /\ HasOutputs(visitLog[j].e)

\* C2 as stated: while no write of the manifest has failed, at most one
\* entry has saved outputs and a false flag in the manifest file.
C2_AtMostOneOrphan ==
    ~writeFailed => Cardinality(Orphans) <= 1

\* C2 as amended: the flag is set only when every image of the response is
\* saved, the manifest file is written only after the flag is set, and the
\* next request is posted only after that write; while no write of the
\* manifest has failed, every entry with saved outputs and a false flag in
\* the manifest file is the entry in flight or an entry whose processing
\* raised an error, and the set of entries marked in the file only grows.
C2_OrderAndOrphans ==
    /\ [](pc = "write" =>
             /\ data[Cur]
             /\ saved = nimgs
             /\ \A k \in 1..nimgs : <<Cur, k>> \in files)
    /\ [](~writeFailed /\ pc = "loop" => \A e \in Entries : data[e] => disk[e])
    /\ [](~writeFailed =>
             \A e \in Orphans : (InFlight /\ e = Cur) \/ e \in errored)
    /\ [][((disk' # disk \/ diskOk' # diskOk) => pc = "write")]_vars
    /\ [][((pc = "save" /\ data' # data)
              => (saved = nimgs /\ \A k \in 1..nimgs : <<Cur, k>> \in files))]_vars
    /\ [][(~writeFailed' => \A e \in Entries : disk[e] => disk'[e])]_vars

\* C2 witness: an entry was processed without error (its outputs saved, its
\* flag in the file) and the next entry's request has been posted, while an
\* earlier entry that raised an error sits with outputs and no flag
C2_Witness ==
    /\ ~writeFailed
    /\ pc = "save"
    /\ saved = 1
    /\ \E e \in Posted \ errored : e # Cur /\ HasOutputs(e) /\ disk[e]
    /\ \E e \in errored : e \in Orphans

\* C3: an error raised while processing an entry never stops the run.  From
\* inside the loop body control only goes on inside the loop or back to the
\* artist level (never to a stop); the log of a run is the manifest in
\* order, each entry once, skipped exactly when its flag was set and
\* attempted otherwise; a finished run has reached every entry; and every
\* artist's loop is left after its last entry.
C3_ErrorsNeverStopRun ==
    /\ [](\A j \in DOMAIN visitLog :
             /\ visitLog[j].e = EntryAt(j)
             /\ visitLog[j].what = "skip" <=> visitLog[j].gen)
    /\ [](pc = "done" => Len(visitLog) = NumArtists * NumImages)
    /\ [][(pc \in {"loop", "save", "write"}
              => pc' \in {"loop", "save", "write", "artist"})]_vars
    /\ [][((pc' = "artist" /\ pc = "loop")
              => Len(visitLog) = art * NumImages)]_vars
    /\ (pc = "loop" ~> pc = "artist")

\* C3 witness: a run has finished in which the first entry raised an error
\* and the last entry was attempted all the same
C3_Witness ==
    /\ pc = "done"
    /\ visitLog[1].what # "skip"
    /\ visitLog[1].e \in errored
    /\ visitLog[Len(visitLog)].what = "post"
    /\ Cardinality(errored) >= 2

(***************************************************************************)
(* Properties of calculate_adjusted_resolution.                            *)
(***************************************************************************)
\* C4: for positive width and height the returned (w, h) has both sides at
\* most max_side, area at most max_area, both sides multiples of 8, and
\* neither side larger than the source's.
C4_ResolutionWithinBounds ==
    resOut # <<>> =>
        /\ resOut[1] <= resIn.max_side
        /\ resOut[2] <= resIn.max_side
        /\ resOut[1] * resOut[2] <= resIn.max_area
        /\ resOut[1] % 8 = 0
        /\ resOut[2] % 8 = 0
        /\ resOut[1] <= resIn.width
        /\ resOut[2] <= resIn.height

\* C4 witness: a call in which the side limit, the area limit and the
\* rounding all changed the size, and the result is not empty
C4_Witness ==
    /\ resOut # <<>>
    /\ resIn.width > resIn.max_side
    /\ \E a \in ClampSide(resIn.width, resIn.height, resIn.max_side) :
          /\ a[1] * a[2] > resIn.max_area
          /\ \E b \in ClampArea(a, resIn.max_area) :
                b # RoundDown8(b) /\ resOut = RoundDown8(b)
    /\ resOut[1] >= 8
    /\ resOut[2] >= 8

(***************************************************************************)
(* Properties of merge_safetensors.                                        *)
(***************************************************************************)
\* C5: when the merge completes, the names of the mapping given to
\* save_file are exactly the names of the index's weight_map.
C5_MergedKeysEqualIndexKeys ==
    mpc = "saved" => DOMAIN output = IndexKeys

\* C5 witness: a merge completed over an index that names both loaded
\* shards, while a shard holds a tensor the index does not name
C5_Witness ==
    /\ mpc = "saved"
    /\ \E k \in IndexKeys : weight_map[k] = File1
    /\ \E k \in IndexKeys : weight_map[k] = File2
    /\ \E k \in Keys \ IndexKeys : k \in shards[File1]

\* C6: every tensor merged is taken from the shard file the index names for
\* it, whatever file name that is, and the merge raises (writing no output)
\* when the named shard does not hold the tensor.
C6_TakenFromNamedShard ==
    /\ \A k \in DOMAIN merged : merged[k] = <<weight_map[k], k>>
    /\ \A k \in IndexKeys :
          (k < mpos \/ mpc = "saved") => k \in shards[weight_map[k]]
    /\ mpc = "raised" => output = <<>>

(***************************************************************************)
(* Properties of the adaptive preprocessing.                               *)
(***************************************************************************)
\* C7: calculate_adaptive_size returns (h, w) with h * w at most
\* resolution * resolution, h and w multiples of divisible, h at most the
\* source height and w at most the source width.
C7_AdaptiveSizeWithinBudget ==
    prep.pc # "sizes" =>
        /\ prep.size[1] * prep.size[2] <= prepIn.resolution * prepIn.resolution
        /\ prep.size[1] % prepIn.divisible = 0
        /\ prep.size[2] % prepIn.divisible = 0
        /\ prep.size[1] <= prepIn.h0
        /\ prep.size[2] <= prepIn.w0

\* C7 witness: a source over the budget was scaled down to a size that is
\* not empty, with a divisor that is not 1
C7_Witness ==
    /\ prep.pc = "images"
    /\ prepIn.h0 * prepIn.w0 > prepIn.resolution * prepIn.resolution
    /\ prepIn.divisible > 1
    /\ prep.size[1] >= prepIn.divisible
    /\ prep.size[2] > prepIn.divisible
    /\ prep.size[2] < prepIn.w0

\* C8: a source image within the pixel-area budget goes through
\* process_image without being rescaled, also when its sides are not
\* multiples of divisible.
C8_WithinBudgetNotResized ==
    (/\ prep.pc \in {"pair", "crop", "flip", "done"}
     /\ prepIn.h0 * prepIn.w0 <= prepIn.resolution * prepIn.resolution)
        => ~prep.im_0.resized /\ ~prep.im_1.resized

\* C9: the label is flipped exactly when label_noise_prob is set and the
\* draw is below it (never when it is unset); the joined pair is
\* (jpg_0, jpg_1) when the resulting label is not 0 and (jpg_1, jpg_0) when
\* it is 0, so its first half is the image the resulting label prefers.
C9_OrderFollowsNoisyLabel ==
    prep.pc \in {"crop", "flip", "done"} =>
        /\ prep.label \in {prepIn.label_0, 1 - prepIn.label_0}
        /\ prep.flipped <=> prep.label = 1 - prepIn.label_0
        /\ prepIn.label_noise_prob = NoneProb => ~prep.flipped
        /\ prepIn.label_noise_prob = 0 => ~prep.flipped
        /\ prep.label # 0 =>
              /\ prep.combined[1].name = "jpg_0"
              /\ prep.combined[2].name = "jpg_1"
        /\ prep.label = 0 =>
              /\ prep.combined[1].name = "jpg_1"
              /\ prep.combined[2].name = "jpg_0"

\* C9 witness: a label of 1 was flipped by the noise and jpg_1 came first
C9_Witness ==
    /\ prep.pc = "done"
    /\ prepIn.label_0 = 1
    /\ prep.flipped
    /\ prep.combined[1].name = "jpg_1"

(***************************************************************************)
(* Properties of the preference loss.                                      *)
(***************************************************************************)
LossSymmetric ==
    /\ loss.pair[1].name = loss.mirror[1].name
    /\ loss.pair[2].name = loss.mirror[2].name
    /\ loss.out.loss = loss.out_mirror.loss
    /\ loss.out.model_losses_w = loss.out_mirror.model_losses_w
    /\ loss.out.model_losses_l = loss.out_mirror.model_losses_l
    /\ loss.out.ratio_losses = loss.out_mirror.ratio_losses

SwapNegatesLogOdds ==
    \A i \in DOMAIN loss.out.log_odds :
        loss.out_swapped.log_odds[i] = 0 - loss.out.log_odds[i]

\* the two preprocessings took the same noise decision
SameNoise ==
    \/ lossIn.label_noise_prob = NoneProb
    \/ (lossIn.draw < lossIn.label_noise_prob)
          = (lossIn.draw_mirror < lossIn.label_noise_prob)

FetchFailed == pc \in {"save", "write"} /\ nimgs = 0

\* C11: when the request for an entry fails (the fetch raises or the
\* response carries no images) the entry's 'generated' flag stays false in
\* memory, so the manifest written next leaves it false on disk and a later
\* run requests the entry again.
C11_FailedFetchStaysUnmarked ==
    FetchFailed => ~data[Cur]

====
